---------------------------- MODULE Spec2Model ----------------------------
(***************************************************************************)
(* ObstacleCameraPerception (modules/perception/camera/app/                *)
(* obstacle_camera_perception.cc): the per-frame pipeline orchestrator,    *)
(* its initialization and its calibration entry points.                    *)
(*                                                                         *)
(* The pluggable stages (detector, tracker, transformer, ...) are opaque:  *)
(* each call returns success or failure and may fill the frame.  The        *)
(* orchestrator's control flow, the maps it builds and the fields it       *)
(* writes itself are modelled statement by statement.                      *)
(***************************************************************************)
EXTENDS Naturals, Sequences, FiniteSets, TLC

(***************************************************************************)
(* Bounds of the model.                                                    *)
(***************************************************************************)
\* Longest detected / tracked object list a stage puts into a frame.
MaxObjects == 2

(***************************************************************************)
(* Inputs.                                                                 *)
(***************************************************************************)
\* A std::map without entries.
EmptyMap == [n \in {} |-> n]

\* Camera names known to the sensor manager.
Sensors == {"front_6mm", "front_12mm"}

\* Values of a pointer to a calibration service carried by a frame: null, the
\* pipeline's own instance (calibration_service_.get()), or another instance.
NullRef == "null"
OwnRef == "calibration_service_"
OtherRef == "other_service"
CalRefs == {NullRef, OwnRef, OtherRef}

\* Parameter blocks and plugin steps Init CHECKs, in the order it CHECKs them.
InitChecks ==
  <<"read_config", "set_device_id", "detector_param", "detector",
    "tracker_param", "tracker", "transformer_param", "transformer",
    "postprocessor_param", "postprocessor", "feature",
    "lane_param", "lane_detector_param", "lane_detector",
    "lane_postprocessor", "calibration_service_param",
    "calibration_service", "object_template">>

\* The camera model the sensor manager returns for a camera name.
GetUndistortCameraModel(name) ==
  IF name = "front_6mm"
    THEN [width |-> 1920, height |-> 1080, intrinsic |-> "K_front_6mm"]
    ELSE [width |-> 1280, height |-> 720, intrinsic |-> "K_front_12mm"]

\* Configurations (app::PerceptionParam) the model initializes with.  `missing`
\* names the one required block the file leaves out ("none": all are there).
DetectorParams ==
  {<<"front_6mm">>, <<"front_12mm", "front_6mm", "front_12mm">>}
DebugParams ==
  {[has_debug_param |-> FALSE, debug_param |-> {},
    has_object_template_param |-> FALSE],
   [has_debug_param |-> TRUE,
    debug_param |-> {"lane_out_dir", "detection_out_dir", "track_out_file"},
    has_object_template_param |-> TRUE],
   [has_debug_param |-> TRUE,
    debug_param |-> {"calibration_out_dir", "detect_feature_dir",
                     "camera2world_out_file", "tracked_detection_out_dir"},
    has_object_template_param |-> FALSE]}
RequiredBlocks ==
  {"detector_param", "tracker_param", "transformer_param",
   "postprocessor_param", "lane_param", "lane_detector_param",
   "calibration_service_param"}
CompleteParams ==
  {[detector_param |-> d, has_feature_param |-> f,
    has_debug_param |-> g.has_debug_param, debug_param |-> g.debug_param,
    has_object_template_param |-> g.has_object_template_param,
    missing |-> "none"]
     : d \in DetectorParams, f \in BOOLEAN, g \in DebugParams}
IncompleteParams ==
  {[detector_param |-> IF b = "detector_param" THEN <<>>
                       ELSE <<"front_6mm", "front_12mm">>,
    has_feature_param |-> TRUE,
    has_debug_param |-> FALSE, debug_param |-> {},
    has_object_template_param |-> FALSE,
    missing |-> b] : b \in RequiredBlocks}
PerceptionParams == CompleteParams \cup IncompleteParams

\* perception_param_ before Init reads the file: no field is set.
DefaultParam ==
  [detector_param |-> <<>>, has_feature_param |-> FALSE,
   has_debug_param |-> FALSE, debug_param |-> {},
   has_object_template_param |-> FALSE, missing |-> "all"]

\* What the environment makes fail during Init: nothing, or one step (for a
\* detector, the step of the i-th detector_param entry).
PluginSteps ==
  {"detector", "tracker", "transformer", "postprocessor", "feature",
   "lane_detector", "lane_postprocessor", "calibration_service"}
InitFailures ==
  {[at |-> "none", what |-> "none", i |-> 0]}
  \cup {[at |-> a, what |-> "check", i |-> 0]
          : a \in {"read_config", "set_device_id"}}
  \cup {[at |-> a, what |-> w, i |-> 0]
          : a \in PluginSteps \ {"detector"}, w \in {"lookup", "init"}}
  \cup {[at |-> "detector", what |-> w, i |-> i]
          : w \in {"lookup", "init"}, i \in 1..3}
  \cup {[at |-> "object_template", what |-> "init", i |-> 0]}

\* Lane observations a lane detector leaves in a frame.  A pitch angle is
\* named by what it was derived from.
NoLanes == "no_lanes"
LaneObservations == {"lanes_a", "lanes_b"}
Uncalibrated == [from |-> "nothing"]

\* Operator corrections handed to SetCameraHeightAndPitch.
Corrections ==
  {[name_camera_ground_height_map |->
      [n \in Sensors |-> IF n = "front_6mm" THEN "h_low" ELSE "h_high"],
    name_camera_pitch_angle_diff_map |->
      [n \in Sensors |-> IF n = "front_6mm" THEN "d_zero" ELSE "d_up"],
    pitch_angle_calibrator_working_sensor |-> "pitch_measured"]}
NoCorrection ==
  [name_camera_ground_height_map |-> EmptyMap,
   name_camera_pitch_angle_diff_map |-> EmptyMap]

(***************************************************************************)
(* State.                                                                  *)
(***************************************************************************)
VARIABLES
  pc,                 \* position of the thread that calls Init / Perception
  perception_param_,  \* the configuration read by Init
  name_intrinsic_map_,
  name_detector_map_,
  extractor_,         \* "null" or the feature extractor instance
  lane_calibration_working_sensor_name_,
  out_track_,         \* TRUE when the stream is open
  out_pose_,
  calibration,        \* state of the pipeline's own calibration service
  frame,              \* the CameraFrame being processed
  calls,              \* what the current call (Init, then each Perception
                      \* call) has invoked, in order
  debug_out,          \* what the latest debug writer of the call did
  previous,           \* the working sensor, if the call before was a frame
                      \* of it that returned true
  ret,                \* outcome of the current Perception call
  tracker_pending,    \* calls the tracker has got since its last Predict, that
                      \* Predict included; 0 once a Track has succeeded
  set_pc              \* position of the thread that calls
                      \* SetCameraHeightAndPitch, inside the service

vars ==
  <<pc, perception_param_, name_intrinsic_map_, name_detector_map_,
    extractor_, lane_calibration_working_sensor_name_, out_track_, out_pose_,
    calibration, frame, calls, debug_out, previous, ret, tracker_pending,
    set_pc>>

pipeline ==
  <<perception_param_, name_intrinsic_map_, name_detector_map_, extractor_,
    lane_calibration_working_sensor_name_, out_track_, out_pose_>>


(***************************************************************************)
(* Helpers.                                                                *)
(***************************************************************************)
\* Faulty variant: the value of a key already there is replaced.
MapInsert_Overwrite(m, key, value) ==
  [n \in DOMAIN m \cup {key} |-> IF n = key THEN value ELSE m[n]]

\* std::map::insert: the pair is added only when the key is not yet there.
MapInsert(m, key, value) ==
  IF key \in DOMAIN m THEN m ELSE m @@ (key :> value)

\* One entry of `calls`: the stage, debug writer or plugin call invoked,
\* whether it reported success, the member or instance it was invoked on, the
\* detector instance (0: none), and the flag handed to it.
Call(stage, ok, on, inst, arg) ==
  [stage |-> stage, ok |-> ok, on |-> on, inst |-> inst, arg |-> arg]

\* Position of a step in Init's order of CHECKs.
Rank(step) == CHOOSE i \in 1..Len(InitChecks) : InitChecks[i] = step

NoFrame ==
  [sensor_name |-> "", calibration_service |-> NullRef,
   camera_k_matrix |-> "unset", lane_objects |-> NoLanes,
   detected_objects |-> <<>>, tracked_objects |-> <<>>]

Init ==
  /\ pc = "constructed"
  /\ perception_param_ = DefaultParam
  /\ name_intrinsic_map_ = EmptyMap
  /\ name_detector_map_ = EmptyMap
  /\ extractor_ = "null"
  /\ lane_calibration_working_sensor_name_ = ""
  /\ out_track_ = FALSE
  /\ out_pose_ = FALSE
  /\ calibration = "null"
  /\ frame = NoFrame
  /\ calls = <<>>
  /\ debug_out = "none"
  /\ previous = ""
  /\ ret = "none"
  /\ tracker_pending = 0
  /\ set_pc = "out"

(***************************************************************************)
(* ObstacleCameraPerception::Init, InitLane, InitCalibrationService.       *)
(***************************************************************************)
\* The detector loop's i-th iteration fails one of its two CHECKs.  The first
\* CHECK looks at the entry the map holds for the camera name, which for a
\* name the map already has (a repeated name, or a name of an earlier Init) is
\* the instance inserted first.
DetectorAbortsAt(d, fail, i) ==
  /\ fail.at = "detector"
  /\ fail.i = i
  /\ i \in 1..Len(d)
  /\ \/ fail.what = "init"
     \/ /\ fail.what = "lookup"
        /\ d[i] \notin DOMAIN name_detector_map_
        /\ \A j \in 1..(i - 1) : d[j] # d[i]

\* Number of iterations the detector loop starts.
DetectorLoopEnd(d, fail) ==
  IF \E i \in 1..Len(d) : DetectorAbortsAt(d, fail, i) THEN fail.i ELSE Len(d)

\* The detector instance constructed last: instances are numbered in the
\* order the registry constructs them.
LastInstance ==
  LET held == {name_detector_map_[n] : n \in DOMAIN name_detector_map_}
  IN  IF held = {} THEN 0 ELSE CHOOSE x \in held : \A y \in held : y <= x

\* The instance GetInstanceByName returns in iteration k: 0 is nullptr, any
\* other a new instance.
DetectorInstance(fail, k) ==
  IF fail.at = "detector" /\ fail.what = "lookup" /\ fail.i = k
    THEN 0 ELSE LastInstance + k

RECURSIVE IntrinsicMapAfter(_, _)
IntrinsicMapAfter(d, k) ==
  IF k = 0 THEN name_intrinsic_map_
  ELSE MapInsert(IntrinsicMapAfter(d, k - 1), d[k],
                 GetUndistortCameraModel(d[k]).intrinsic)

RECURSIVE DetectorMapAfter(_, _, _)
DetectorMapAfter(d, fail, k) ==
  IF k = 0 THEN name_detector_map_
  ELSE MapInsert(DetectorMapAfter(d, fail, k - 1), d[k],
                 DetectorInstance(fail, k))

\* The first CHECK of Init that fails, "none" when Init returns true.
InitAbort(param, fail) ==
  LET d == param.detector_param
      plugin(step) == fail.at = step
  IN  IF fail.at = "read_config" THEN "read_config"
      ELSE IF fail.at = "set_device_id" THEN "set_device_id"
      ELSE IF Len(d) = 0 THEN "detector_param"
      ELSE IF \E i \in 1..Len(d) : DetectorAbortsAt(d, fail, i) THEN "detector"
      ELSE IF param.missing = "tracker_param" THEN "tracker_param"
      ELSE IF plugin("tracker") THEN "tracker"
      ELSE IF param.missing = "transformer_param" THEN "transformer_param"
      ELSE IF plugin("transformer") THEN "transformer"
      ELSE IF param.missing = "postprocessor_param" THEN "postprocessor_param"
      ELSE IF plugin("postprocessor") THEN "postprocessor"
      ELSE IF param.has_feature_param /\ plugin("feature") THEN "feature"
      ELSE IF param.missing = "lane_param" THEN "lane_param"
      ELSE IF param.missing = "lane_detector_param" THEN "lane_detector_param"
      ELSE IF plugin("lane_detector") THEN "lane_detector"
      ELSE IF plugin("lane_postprocessor") THEN "lane_postprocessor"
      ELSE IF param.missing = "calibration_service_param"
        THEN "calibration_service_param"
      ELSE IF plugin("calibration_service") THEN "calibration_service"
      ELSE IF param.has_object_template_param /\ plugin("object_template")
        THEN "object_template"
      ELSE "none"

\* Init got past `step`.
Passed(abort, step) == abort = "none" \/ Rank(abort) > Rank(step)

\* Init reaches the plugin block of `step`.
Reached(abort, step) == abort = "none" \/ Rank(abort) >= Rank(step)

\* What the first k iterations of the detector loop invoke: the registry
\* lookup of the entry's plugin, then, when the map holds an instance for the
\* camera name, Init on the instance the map holds.
RECURSIVE DetectorCalls(_, _, _)
DetectorCalls(d, fail, k) ==
  IF k = 0 THEN <<>>
  ELSE LET found == DetectorInstance(fail, k)
           held == DetectorMapAfter(d, fail, k)[d[k]]
           lookup == Call("GetInstanceByName", found # 0, d[k], found, FALSE)
           init == Call("Init",
                        ~(fail.at = "detector" /\ fail.what = "init"
                            /\ fail.i = k),
                        d[k], held, FALSE)
       IN  DetectorCalls(d, fail, k - 1)
             \o <<lookup>> \o (IF held # 0 THEN <<init>> ELSE <<>>)

\* What the block of a singular plugin invokes: `member.reset(GetInstanceByName
\* (name))`, then, past the CHECK against nullptr, `member->Init(options)`.
PluginCalls(step, member, reached, fail) ==
  IF ~reached THEN <<>>
  ELSE LET found == ~(fail.at = step /\ fail.what = "lookup")
           lookup == Call("GetInstanceByName", found, member, 0, FALSE)
           init == Call("Init", ~(fail.at = step /\ fail.what = "init"),
                        member, 0, FALSE)
       IN  <<lookup>> \o (IF found THEN <<init>> ELSE <<>>)

\* Everything Init invokes, in order, up to its first failing CHECK.
InitCalls(param, fail) ==
  LET d == param.detector_param
      abort == InitAbort(param, fail)
      plugin(step, member) ==
        PluginCalls(step, member, Reached(abort, step), fail)
  IN  IF ~Passed(abort, "detector_param") THEN <<>>
      ELSE DetectorCalls(d, fail, DetectorLoopEnd(d, fail))
             \o plugin("tracker", "tracker_")
             \o plugin("transformer", "transformer_")
             \o plugin("postprocessor", "obstacle_postprocessor_")
             \o PluginCalls("feature", "extractor_",
                            param.has_feature_param
                              /\ Reached(abort, "feature"), fail)
             \o plugin("lane_detector", "lane_detector_")
             \o plugin("lane_postprocessor", "lane_postprocessor_")
             \o plugin("calibration_service", "calibration_service_")
             \o (IF param.has_object_template_param
                      /\ Reached(abort, "object_template")
                   THEN <<Call("Init", fail.at # "object_template",
                               "object_template_manager_", 0, FALSE)>>
                   ELSE <<>>)

\* The extractor Init leaves: absent without a feature block, else what the
\* registry returned.
ExtractorAfterInit(param, fail) ==
  IF ~param.has_feature_param
       \/ (fail.at = "feature" /\ fail.what = "lookup")
    THEN "null" ELSE "extractor"

\* Faulty variant: the service is told a fixed camera name instead of the option.
CalibratorWorkingSensorName_Fixed(working) == "front_12mm"

\* The working sensor name InitCalibrationService hands to the service.
CalibratorWorkingSensorName(working) == working

\* BaseCalibrationService::Init: the service keeps its options and starts
\* uncalibrated, its mutex free.
CalibrationServiceInit(options) ==
  [calibrator_working_sensor_name |-> options.calibrator_working_sensor_name,
   name_intrinsic_map |-> options.name_intrinsic_map,
   image_width |-> options.image_width,
   image_height |-> options.image_height,
   pitch_angle |-> Uncalibrated,
   correction |-> NoCorrection,
   mutex_ |-> FALSE]

\* A call of Init with one of the configurations `params`.  A member Init did
\* not get to keeps its value.
InitWith(params) ==
  /\ \E param \in params, fail \in InitFailures, working \in Sensors,
        track_opens \in BOOLEAN, pose_opens \in BOOLEAN :
       LET d == param.detector_param
           abort == InitAbort(param, fail)
           k == DetectorLoopEnd(d, fail)
           model == GetUndistortCameraModel(d[Len(d)])
           read == abort # "read_config"
       IN  /\ perception_param_' = IF read THEN param ELSE DefaultParam
           /\ name_intrinsic_map_' =
                IF Passed(abort, "detector_param")
                  THEN IntrinsicMapAfter(d, k) ELSE name_intrinsic_map_
           /\ name_detector_map_' =
                IF Passed(abort, "detector_param")
                  THEN DetectorMapAfter(d, fail, k) ELSE name_detector_map_
           /\ extractor_' =
                IF Passed(abort, "postprocessor")
                  THEN ExtractorAfterInit(param, fail) ELSE extractor_
           /\ lane_calibration_working_sensor_name_' =
                IF Passed(abort, "feature")
                  THEN working ELSE lane_calibration_working_sensor_name_
           /\ calibration' =
                IF Passed(abort, "calibration_service")
                  THEN CalibrationServiceInit(
                         [calibrator_working_sensor_name |->
                            CalibratorWorkingSensorName(working),
                          name_intrinsic_map |-> IntrinsicMapAfter(d, k),
                          image_width |-> model.width,
                          image_height |-> model.height])
                  ELSE calibration
           /\ out_track_' =
                \/ out_track_
                \/ /\ Passed(abort, "calibration_service")
                   /\ param.has_debug_param
                   /\ "track_out_file" \in param.debug_param
                   /\ track_opens
           /\ out_pose_' =
                \/ out_pose_
                \/ /\ Passed(abort, "calibration_service")
                   /\ param.has_debug_param
                   /\ "camera2world_out_file" \in param.debug_param
                   /\ pose_opens
           /\ calls' = InitCalls(param, fail)
           /\ pc' = IF abort = "none" THEN "idle" ELSE "init_aborted"
  /\ UNCHANGED <<set_pc, tracker_pending, frame, debug_out, previous, ret>>

\* Init on the newly constructed object, with any configuration file.
InitPipeline == pc = "constructed" /\ InitWith(PerceptionParams)

\* Init called once more, between frames, with the same options: the same
\* configuration file is read again.
InitAgain == pc = "idle" /\ InitWith({perception_param_})

(***************************************************************************)
(* Calibration service (BaseCalibrationService), as the pipeline uses it.  *)
(***************************************************************************)
\* The pitch the calibrator derives from a frame's lane observations.
PitchFromLanes(lanes) == [from |-> lanes]

\* Update(frame): a frame of the service's working sensor whose lanes yield an
\* estimate (updated) replaces the pitch; any other call keeps the stored state.
CalibrationUpdate(cal, f, updated) ==
  IF f.sensor_name = cal.calibrator_working_sensor_name /\ updated
    THEN [cal EXCEPT !.pitch_angle = PitchFromLanes(f.lane_objects)]
    ELSE cal

\* Faulty variant: a correction equal to the stored one withdraws it.
CalibrationSetCameraHeightAndPitch_Toggle(cal, c) ==
  IF cal.correction
       = [name_camera_ground_height_map |-> c.name_camera_ground_height_map,
          name_camera_pitch_angle_diff_map |->
            c.name_camera_pitch_angle_diff_map]
    THEN [cal EXCEPT !.correction = NoCorrection]
    ELSE [cal EXCEPT !.correction =
                       [name_camera_ground_height_map |->
                          c.name_camera_ground_height_map,
                        name_camera_pitch_angle_diff_map |->
                          c.name_camera_pitch_angle_diff_map],
                     !.pitch_angle =
                       [from |-> c.pitch_angle_calibrator_working_sensor]]

\* SetCameraHeightAndPitch(heights, pitch diffs, working sensor pitch): the
\* service stores the two maps and takes the pitch as its current estimate.
CalibrationSetCameraHeightAndPitch(cal, c) ==
  [cal EXCEPT !.correction =
                [name_camera_ground_height_map |->
                   c.name_camera_ground_height_map,
                 name_camera_pitch_angle_diff_map |->
                   c.name_camera_pitch_angle_diff_map],
              !.pitch_angle =
                [from |-> c.pitch_angle_calibrator_working_sensor]]

\* CHECK(calibration_service_ != nullptr), then the call is forwarded.  Under
\* the service's mutex the call is one step.
SetCameraHeightAndPitch ==
  /\ pc \notin {"constructed", "init_aborted", "aborted"}
  /\ \E c \in Corrections :
       calibration' = CalibrationSetCameraHeightAndPitch(calibration, c)
  /\ UNCHANGED <<set_pc, tracker_pending, pc, pipeline, frame, calls, debug_out,
                 previous, ret>>

(***************************************************************************)
(* Objects the opaque stages put into a frame.                             *)
(***************************************************************************)
SeqsUpTo(S, n) == UNION {[1..k -> S] : k \in 0..n}

\* A detector's objects: the supplement's sensor name is not set yet.
DetectedObjects ==
  {[camera_supplement |-> [sensor_name |-> n]] : n \in {""}}

\* FillObjectPolygonFromBBox3D: the four corners of the box around the center.
FillObjectPolygonFromBBox3D(obj) ==
  [obj EXCEPT !.polygon =
     [i \in 1..4 |-> [center |-> obj.center, size |-> obj.size, corner |-> i]]]

\* A tracker's objects: the anchor point and the polygon are unset or stale.
TrackedObjects ==
  LET fresh == [center |-> "p1", size |-> "s1", anchor_point |-> "origin",
                polygon |-> <<>>]
      stale == FillObjectPolygonFromBBox3D(fresh).polygon
  IN  {fresh,
       [center |-> "p2", size |-> "s2", anchor_point |-> "p1",
        polygon |-> stale]}

(***************************************************************************)
(* ObstacleCameraPerception::Perception.                                   *)
(***************************************************************************)
\* Faulty variant: the lane branch is taken for every sensor.
IsCalibrationWorkingSensor_Always(name) == TRUE

\* The frame's sensor is the lane calibration working sensor.
IsCalibrationWorkingSensor(name) ==
  lane_calibration_working_sensor_name_ = name

\* name_intrinsic_map_.at(sensor) throws std::out_of_range for an absent key.
IntrinsicLookupThrows(name) == name \notin DOMAIN name_intrinsic_map_

\* Faulty variant: the lookup is `name_intrinsic_map_[sensor]`, which adds a
\* default entry for an absent key.
MapAfterAt_Subscript(m, name) == MapInsert(m, name, "K_default")

\* std::map::at is a const lookup: the map is what it was.
MapAfterAt(m, name) == m

\* Faulty variant: the CHECK of the frame's calibration service is left out.
CalibrationServiceIsNull_Unchecked(service) == FALSE

\* CHECK(frame->calibration_service != nullptr) fails.
CalibrationServiceIsNull(service) == service = NullRef

\* Faulty variant: the detector of the first camera in the map is used.
DetectorOf_First(name) ==
  name_detector_map_[CHOOSE n \in DOMAIN name_detector_map_ :
                       \A o \in DOMAIN name_detector_map_ :
                         name_detector_map_[n] <= name_detector_map_[o]]

\* name_detector_map_.at(frame->data_provider->sensor_name())
DetectorOf(name) == name_detector_map_[name]

\* Faulty variant: refinement only with the pipeline's own service.
DoRefinement_OwnOnly(service) == service = OwnRef

\* do_refinement_with_calibration_service = frame->calibration_service != nullptr
DoRefinement(service) == service # NullRef

\* Faulty variant: the exception is caught and turned into `return false`.
OutOfRangeOutcome_Caught == "false"

\* The exception leaves Perception: the caller sees it, not a return value.
OutOfRangeOutcome == "out_of_range"

\* Faulty variant: Update's outcome is checked like a stage's.
ReturnsFalseOnUpdate_Checked(updated) == ~updated

\* The result of Update is not looked at: no outcome of it ends the call.
ReturnsFalseOnUpdate(updated) == FALSE

\* Faulty variants: one stage's failure is logged but the call goes on.
ReturnsFalseOn_NotTransform(stage, ok) == ~ok /\ stage # "Transform"
ReturnsFalseOn_NotLaneDetect(stage, ok) == ~ok /\ stage # "LaneDetect"

\* `if (!stage(...)) return false;`: a stage that reports failure ends the call.
ReturnsFalseOn(stage, ok) == ~ok

\* Faulty variant: a debug writer that fails ends the call.
DebugWriteAborts_OnFailure(stage, ok) == ~ok

\* The result of a debug writer is not looked at.
DebugWriteAborts(stage, ok) == FALSE

\* Faulty variant: the extractor is run without the null test.
ExtractorConfigured_NoNullTest == TRUE

\* The extractor is run only when one was configured.
ExtractorConfigured == extractor_ # "null"

\* Faulty variant: the loop starts at the second object.
StampSensorName_FromSecond(objects, name) ==
  [i \in 1..Len(objects) |->
     IF i = 1 THEN objects[i]
     ELSE [objects[i] EXCEPT !.camera_supplement.sensor_name = name]]

\* Lines 395-398: every detected object gets the frame's sensor name.
StampSensorName(objects, name) ==
  [i \in 1..Len(objects) |->
     [objects[i] EXCEPT !.camera_supplement.sensor_name = name]]

\* Faulty variant: the loop stops before the last object.
FillPolygonAndAnchor_NotLast(objects) ==
  [i \in 1..Len(objects) |->
     IF i = Len(objects) THEN objects[i]
     ELSE [FillObjectPolygonFromBBox3D(objects[i])
             EXCEPT !.anchor_point = objects[i].center]]

\* Lines 450-453: polygon from the box, anchor point := center.
FillPolygonAndAnchor(objects) ==
  [i \in 1..Len(objects) |->
     [FillObjectPolygonFromBBox3D(objects[i])
        EXCEPT !.anchor_point = objects[i].center]]

\* Lines 300-306: a frame arrives; its intrinsics are looked up, its
\* calibration service is CHECKed, and the branch is taken.
Perception ==
  /\ pc = "idle"
  /\ \E name \in Sensors, service \in CalRefs :
       LET f == [NoFrame EXCEPT !.sensor_name = name,
                                !.calibration_service = service]
       IN  /\ calls' = <<>>
           /\ debug_out' = "none"
           /\ IF IntrinsicLookupThrows(name)
                THEN /\ frame' = f
                     /\ ret' = OutOfRangeOutcome
                     /\ pc' = "returned"
                ELSE /\ frame' =
                          [f EXCEPT !.camera_k_matrix =
                                       name_intrinsic_map_[name]]
                     /\ IF CalibrationServiceIsNull(service)
                          THEN ret' = "check_failed" /\ pc' = "aborted"
                          ELSE /\ ret' = "running"
                               /\ pc' = IF IsCalibrationWorkingSensor(name)
                                          THEN "lane_detect"
                                          ELSE "update"
  /\ name_intrinsic_map_' = MapAfterAt(name_intrinsic_map_, frame'.sensor_name)
  /\ UNCHANGED <<set_pc, tracker_pending, perception_param_, name_detector_map_,
                 extractor_, lane_calibration_working_sensor_name_,
                 out_track_, out_pose_, calibration, previous>>

\* Faulty variant: a stage that fails makes the tracker drop what it got.
TrackerSees_Rollback(n, stage, on, ok) ==
  IF ~ok THEN 0
  ELSE IF on # "tracker_" THEN n
  ELSE IF stage = "Predict" THEN 1
  ELSE IF stage = "Track" THEN 0
  ELSE n + 1

\* What a stage call does to the tracker's count: a call on another member
\* nothing; Predict starts a new count, whatever was pending; a Track that
\* succeeds ends it; every other call on the tracker adds to it.
TrackerSees(n, stage, on, ok) ==
  IF on # "tracker_" THEN n
  ELSE IF stage = "Predict" THEN 1
  ELSE IF stage = "Track" /\ ok THEN 0
  ELSE n + 1

\* A stage whose result is checked: on failure Perception returns false.
CheckedStage(here, stage, on, inst, arg, next, frames) ==
  /\ pc = here
  /\ \E ok \in BOOLEAN :
       /\ calls' = Append(calls, Call(stage, ok, on, inst, arg))
       /\ IF ReturnsFalseOn(stage, ok)
            THEN pc' = "returned" /\ ret' = "false" /\ frame' = frame
            ELSE pc' = next /\ ret' = ret /\ frame' \in frames
       /\ tracker_pending' = TrackerSees(tracker_pending, stage, on, ok)
  /\ UNCHANGED <<set_pc, pipeline, calibration, debug_out, previous>>

\* What a debug writer does: nothing unless enabled, else it writes or fails.
DebugOutcome(enabled, ok) ==
  IF ~enabled THEN "skipped" ELSE IF ok THEN "written" ELSE "failed"

\* A debug writer is called with its enabling flag (or stream).
DebugWrite(here, stage, enabled, next) ==
  /\ pc = here
  /\ calls' = Append(calls, Call(stage, TRUE, "debug", 0, enabled))
  /\ \E ok \in BOOLEAN :
       /\ debug_out' = DebugOutcome(enabled, ok)
       /\ IF DebugWriteAborts(stage, ok)
            THEN pc' = "returned" /\ ret' = "false"
            ELSE pc' = next /\ ret' = ret
  /\ UNCHANGED <<set_pc, tracker_pending, pipeline, calibration, frame, previous>>

\* debug_param() of a configuration without the block is the default
\* instance, none of whose fields is set.
DebugParamHas(field) == field \in perception_param_.debug_param

\* has_debug_param() && debug_param().has_<field>()
DebugEnabled(field) ==
  perception_param_.has_debug_param /\ DebugParamHas(field)

\* Faulty variant: Update is called on the member calibration_service_.
UpdateTarget_Member(f) == OwnRef

\* The service Perception calls Update on: the one the frame points to.
UpdateTarget(f) == f.calibration_service

\* frame->calibration_service->Update(frame): no result is looked at.
Update(here, next) ==
  /\ pc = here
  /\ \E updated \in BOOLEAN :
       /\ calls' = Append(calls, Call("Update", updated,
                                      UpdateTarget(frame), 0, FALSE))
       /\ calibration' =
            IF UpdateTarget(frame) = OwnRef
              THEN CalibrationUpdate(calibration, frame, updated)
              ELSE calibration
       /\ IF ReturnsFalseOnUpdate(updated)
            THEN pc' = "returned" /\ ret' = "false"
            ELSE pc' = next /\ ret' = ret
  /\ UNCHANGED <<set_pc, tracker_pending, pipeline, frame, debug_out, previous>>

LaneDetect ==
  CheckedStage("lane_detect", "LaneDetect", "lane_detector_", 0, FALSE,
               "lane_process2d",
               {[frame EXCEPT !.lane_objects = l] : l \in LaneObservations})

LaneProcess2D ==
  CheckedStage("lane_process2d", "LaneProcess2D", "lane_postprocessor_", 0,
               FALSE, "lane_update", {frame})

\* Faulty variant: lane 3D postprocessing is left out.
UpdateWorkingSensor_SkipsLane3D == Update("lane_update", "write_lanelines")

UpdateWorkingSensor == Update("lane_update", "lane_process3d")

LaneProcess3D ==
  CheckedStage("lane_process3d", "LaneProcess3D", "lane_postprocessor_", 0,
               FALSE, "write_lanelines", {frame})

WriteLanelines ==
  DebugWrite("write_lanelines", "WriteLanelines",
             DebugEnabled("lane_out_dir"), "write_calibration")

UpdateOtherSensor == Update("update", "write_calibration")

WriteCalibrationOutput ==
  DebugWrite("write_calibration", "WriteCalibrationOutput",
             DebugEnabled("calibration_out_dir"), "predict")

Predict ==
  CheckedStage("predict", "Predict", "tracker_", 0, FALSE, "detect", {frame})

Detect ==
  CheckedStage("detect", "Detect", frame.sensor_name,
               DetectorOf(frame.sensor_name), FALSE,
               "write_detections",
               {[frame EXCEPT !.detected_objects = o]
                  : o \in SeqsUpTo(DetectedObjects, MaxObjects)})

WriteDetections ==
  DebugWrite("write_detections", "WriteDetections",
             DebugParamHas("detection_out_dir"), "extract")

Extract ==
  IF ExtractorConfigured
    THEN CheckedStage("extract", "Extract", "extractor_", 0, FALSE,
                      "write_detect_feature", {frame})
    ELSE /\ pc = "extract"
         /\ pc' = "write_detect_feature"
         /\ UNCHANGED <<set_pc, tracker_pending, pipeline, calibration, frame, calls,
                        debug_out, previous, ret>>

WriteDetectFeature ==
  DebugWrite("write_detect_feature", "WriteDetectFeature",
             DebugParamHas("detect_feature_dir"), "stamp")

SetSensorName ==
  /\ pc = "stamp"
  /\ frame' = [frame EXCEPT !.detected_objects =
                 StampSensorName(frame.detected_objects, frame.sensor_name)]
  /\ pc' = "associate2d"
  /\ UNCHANGED <<set_pc, tracker_pending, pipeline, calibration, calls, debug_out,
                 previous, ret>>

Associate2D ==
  CheckedStage("associate2d", "Associate2D", "tracker_", 0, FALSE,
               "transform", {frame})

Transform ==
  CheckedStage("transform", "Transform", "transformer_", 0, FALSE,
               "postprocess", {frame})

\* Lines 413-420: the flag goes to the postprocessor with the frame.
Process ==
  CheckedStage("postprocess", "Process", "obstacle_postprocessor_", 0,
               DoRefinement(frame.calibration_service), "associate3d",
               {frame})

Associate3D ==
  CheckedStage("associate3d", "Associate3D", "tracker_", 0, FALSE, "track",
               {frame})

Track ==
  CheckedStage("track", "Track", "tracker_", 0, FALSE, "write_camera2world",
               {[frame EXCEPT !.tracked_objects = o]
                  : o \in SeqsUpTo(TrackedObjects, MaxObjects)})

WriteCamera2World ==
  DebugWrite("write_camera2world", "WriteCamera2World", out_pose_,
             "write_tracking")

WriteTracking ==
  DebugWrite("write_tracking", "WriteTracking", out_track_,
             "write_tracked_detections")

WriteTrackedDetections ==
  DebugWrite("write_tracked_detections", "WriteTrackedDetections",
             DebugParamHas("tracked_detection_out_dir"), "fill_polygon")

\* Lines 449-454, then `return true`.
FillPolygonSetAnchor ==
  /\ pc = "fill_polygon"
  /\ frame' = [frame EXCEPT !.tracked_objects =
                 FillPolygonAndAnchor(frame.tracked_objects)]
  /\ calls' = Append(calls, Call("FillPolygonSetAnchor", TRUE, "frame", 0,
                                 FALSE))
  /\ ret' = "true"
  /\ pc' = "returned"
  /\ UNCHANGED <<set_pc, tracker_pending, pipeline, calibration, debug_out, previous>>

\* The caller takes the outcome and drops the frame.
Return ==
  /\ pc = "returned"
  /\ pc' = "idle"
  /\ frame' = NoFrame
  /\ calls' = <<>>
  /\ debug_out' = "none"
  /\ ret' = "none"
  /\ previous' = IF ret = "true" /\ IsCalibrationWorkingSensor(frame.sensor_name)
                   THEN frame.sensor_name ELSE ""
  /\ UNCHANGED <<set_pc, tracker_pending, pipeline, calibration>>

Next ==
  \/ InitPipeline
  \/ SetCameraHeightAndPitch
  \/ Perception
  \/ LaneDetect
  \/ LaneProcess2D
  \/ UpdateWorkingSensor
  \/ LaneProcess3D
  \/ WriteLanelines
  \/ UpdateOtherSensor
  \/ WriteCalibrationOutput
  \/ Predict
  \/ Detect
  \/ WriteDetections
  \/ Extract
  \/ WriteDetectFeature
  \/ SetSensorName
  \/ Associate2D
  \/ Transform
  \/ Process
  \/ Associate3D
  \/ Track
  \/ WriteCamera2World
  \/ WriteTracking
  \/ WriteTrackedDetections
  \/ FillPolygonSetAnchor
  \/ Return

Spec == Init /\ [][Next]_vars

\* The object's initialization alone: Init, and Init once more.
NextInit == InitPipeline \/ InitAgain

SpecInit == Init /\ [][NextInit]_vars

(***************************************************************************)
(* The calibration service with two threads in it.  Perception calls       *)
(* Update (lines 324, 345) and SetCameraHeightAndPitch forwards to the      *)
(* service (lines 278-281) without a lock of their own; the service guards  *)
(* its fields with one mutex.  Here the two calls are taken apart into the  *)
(* steps inside the service: lock, write, unlock.                           *)
(***************************************************************************)
\* Faulty variant: the lock is taken without waiting for it.
MutexFree_Always(cal) == TRUE

\* The service's mutex can be taken.
MutexFree(cal) == ~cal.mutex_

\* Update enters the service of the frame and takes its mutex.  The mutex of
\* another service than the pipeline's is taken by no one else.
UpdateLock(here, locked) ==
  /\ pc = here
  /\ frame.calibration_service = OwnRef => MutexFree(calibration)
  /\ calibration' =
       IF frame.calibration_service = OwnRef
         THEN [calibration EXCEPT !.mutex_ = TRUE] ELSE calibration
  /\ pc' = locked
  /\ UNCHANGED <<set_pc, tracker_pending, pipeline, frame, calls, debug_out,
                 previous, ret>>

\* Update writes its estimate, frees the mutex and returns to Perception.
UpdateUnlock(locked, next) ==
  /\ pc = locked
  /\ \E updated \in BOOLEAN :
       /\ calls' = Append(calls, Call("Update", updated,
                                      frame.calibration_service, 0, FALSE))
       /\ calibration' =
            IF frame.calibration_service = OwnRef
              THEN [CalibrationUpdate(calibration, frame, updated)
                      EXCEPT !.mutex_ = FALSE]
              ELSE calibration
       /\ IF ReturnsFalseOnUpdate(updated)
            THEN pc' = "returned" /\ ret' = "false"
            ELSE pc' = next /\ ret' = ret
  /\ UNCHANGED <<set_pc, tracker_pending, pipeline, frame, debug_out,
                 previous>>

UpdateWorkingSensorLock == UpdateLock("lane_update", "lane_update_locked")
UpdateWorkingSensorUnlock == UpdateUnlock("lane_update_locked", "lane_process3d")
UpdateOtherSensorLock == UpdateLock("update", "update_locked")
UpdateOtherSensorUnlock == UpdateUnlock("update_locked", "write_calibration")

\* SetCameraHeightAndPitch, on the second thread: past the CHECK it enters the
\* service and takes the mutex,
SetLock ==
  /\ pc \notin {"constructed", "init_aborted", "aborted"}
  /\ set_pc = "out"
  /\ MutexFree(calibration)
  /\ calibration' = [calibration EXCEPT !.mutex_ = TRUE]
  /\ set_pc' = "locked"
  /\ UNCHANGED <<tracker_pending, pc, pipeline, frame, calls, debug_out,
                 previous, ret>>

\* stores the two maps,
SetHeights ==
  /\ set_pc = "locked"
  /\ \E c \in Corrections :
       calibration' =
         [calibration EXCEPT !.correction =
            CalibrationSetCameraHeightAndPitch(calibration, c).correction]
  /\ set_pc' = "heights"
  /\ UNCHANGED <<tracker_pending, pc, pipeline, frame, calls, debug_out,
                 previous, ret>>

\* and stores the pitch, frees the mutex and returns.
SetPitchUnlock ==
  /\ set_pc = "heights"
  /\ \E c \in Corrections :
       calibration' =
         [calibration EXCEPT
            !.pitch_angle =
              CalibrationSetCameraHeightAndPitch(calibration, c).pitch_angle,
            !.mutex_ = FALSE]
  /\ set_pc' = "out"
  /\ UNCHANGED <<tracker_pending, pc, pipeline, frame, calls, debug_out,
                 previous, ret>>

\* Frames up to the tracker's Predict, with the steps inside the service.
NextCalibration ==
  \/ InitPipeline
  \/ Perception
  \/ LaneDetect
  \/ LaneProcess2D
  \/ UpdateWorkingSensorLock
  \/ UpdateWorkingSensorUnlock
  \/ LaneProcess3D
  \/ WriteLanelines
  \/ UpdateOtherSensorLock
  \/ UpdateOtherSensorUnlock
  \/ WriteCalibrationOutput
  \/ Predict
  \/ Return
  \/ SetLock
  \/ SetHeights
  \/ SetPitchUnlock

SpecCalibration == Init /\ [][NextCalibration]_vars

(***************************************************************************)
(* Properties.                                                             *)
(***************************************************************************)
\* Stages whose result Perception checks, in the order of the code.
CheckedStages ==
  {"LaneDetect", "LaneProcess2D", "LaneProcess3D", "Predict", "Detect",
   "Extract", "Associate2D", "Transform", "Process", "Associate3D", "Track"}
LaneStages == {"LaneDetect", "LaneProcess2D", "LaneProcess3D"}
ObstacleStages == CheckedStages \ LaneStages

\* Init has returned true.
Initialized == pc \notin {"constructed", "init_aborted"}

\* A Perception call is under way or has just ended.
InCall == pc \notin {"constructed", "idle"} /\ frame.sensor_name # ""

Invoked(stage) == \E i \in 1..Len(calls) : calls[i].stage = stage
Failed(stage) ==
  \E i \in 1..Len(calls) : calls[i].stage = stage /\ ~calls[i].ok
AllCheckedOk ==
  \A i \in 1..Len(calls) : calls[i].stage \in CheckedStages => calls[i].ok

\* C1: a checked stage that reports failure is the last thing the call
\* invokes, and the call returns false.
C1_FailFast ==
  \A i \in 1..Len(calls) :
    (calls[i].stage \in CheckedStages /\ ~calls[i].ok)
      => /\ i = Len(calls)
         /\ pc = "returned"
         /\ ret = "false"

C1_Witness ==
  /\ ret = "false"
  /\ Failed("Transform")
  /\ Invoked("Associate2D")

\* C2: while a frame of another sensor than the working sensor is processed,
\* no lane stage is ever invoked, whatever frame came before.
C2_NoLaneStagesForOtherSensor ==
  (InCall /\ frame.sensor_name # lane_calibration_working_sensor_name_)
    => \A i \in 1..Len(calls) : calls[i].stage \notin LaneStages

C2_Witness ==
  /\ ret = "true"
  /\ frame.sensor_name # lane_calibration_working_sensor_name_
  /\ previous = lane_calibration_working_sensor_name_
  /\ Invoked("Update")
  /\ Invoked("Track")

\* C3: no step of a Perception call on a frame of another sensor than the
\* working sensor changes the pipeline's calibration state (a step that
\* changes pc is a step of the call, not a SetCameraHeightAndPitch).
C3_OtherSensorKeepsCalibration ==
  [][(InCall /\ pc' # pc
        /\ frame.sensor_name # lane_calibration_working_sensor_name_)
       => calibration' = calibration]_vars

C3_Witness ==
  /\ ret = "true"
  /\ frame.sensor_name # lane_calibration_working_sensor_name_
  /\ frame.calibration_service = OwnRef
  /\ \E i \in 1..Len(calls) : calls[i].stage = "Update" /\ calls[i].ok
  /\ calibration.pitch_angle = PitchFromLanes("lanes_a")

\* C4: on a working-sensor frame a lane detection failure ends the call with
\* false: neither Update nor any obstacle stage is invoked.
C4_LaneDetectFailureFirst ==
  (InCall /\ Failed("LaneDetect"))
    => /\ frame.sensor_name = lane_calibration_working_sensor_name_
       /\ ret = "false"
       /\ \A i \in 1..Len(calls) :
            calls[i].stage \notin ObstacleStages \cup {"Update"}

C4_Witness ==
  /\ ret = "false"
  /\ frame.sensor_name = lane_calibration_working_sensor_name_
  /\ Len(calls) = 1
  /\ Failed("LaneDetect")

\* C5 as claimed: on a working-sensor frame an Update that reports failure is
\* the last thing the call invokes (no lane 3D postprocessing follows), and
\* the call does not return true.
C5_UpdateIsFailurePoint ==
  frame.sensor_name = lane_calibration_working_sensor_name_
    => \A i \in 1..Len(calls) :
         (calls[i].stage = "Update" /\ ~calls[i].ok)
           => /\ i = Len(calls)
              /\ ~Invoked("LaneProcess3D")
              /\ ret # "true"

\* C5 amended: Update's outcome is not a failure point.  Whatever Update did,
\* the call goes on with lane 3D postprocessing (working sensor) or the
\* calibration debug output (other sensors); the call returns true only if
\* every checked stage succeeded, and false only if one failed.
C5_UpdateNotChecked ==
  /\ \A i \in 1..Len(calls) :
       calls[i].stage = "Update"
         => LET after == IF frame.sensor_name
                              = lane_calibration_working_sensor_name_
                           THEN [pc |-> "lane_process3d",
                                 stage |-> "LaneProcess3D"]
                           ELSE [pc |-> "write_calibration",
                                 stage |-> "WriteCalibrationOutput"]
            IN  IF i = Len(calls)
                  THEN pc = after.pc /\ ret = "running"
                  ELSE calls[i + 1].stage = after.stage
  /\ ret = "true" => AllCheckedOk /\ Invoked("Track")
  /\ ret = "false" => ~AllCheckedOk

C5_Witness ==
  /\ ret = "true"
  /\ frame.sensor_name = lane_calibration_working_sensor_name_
  /\ Failed("Update")
  /\ Invoked("LaneProcess3D")

\* C6: a frame whose sensor has no entry in name_intrinsic_map_ ends the call
\* at once with the out-of-range error: nothing was invoked, and the outcome is
\* neither true nor the false of a stage failure.
C6_UnknownSensor ==
  (InCall /\ frame.sensor_name \notin DOMAIN name_intrinsic_map_)
    => /\ pc = "returned"
       /\ ret = "out_of_range"
       /\ ret \notin {"true", "false"}
       /\ calls = <<>>
       /\ frame.camera_k_matrix = "unset"

C6_Witness ==
  /\ pc = "returned"
  /\ frame.sensor_name = "front_12mm"
  /\ frame.sensor_name \notin DOMAIN name_intrinsic_map_
  /\ ret = "out_of_range"

\* The entries of `calls` from the n-th on.
CallsFrom(n) == [i \in 1..(Len(calls) + 1 - n) |-> calls[i + n - 1].stage]

\* C7: without a feature block Extract is never invoked, and a call whose
\* other stages all succeed returns true after Associate2D, Transform,
\* Process, Associate3D, Track and the final fill; with a feature block
\* Extract is invoked once, right after Detect and its debug output, and its
\* failure ends the call before Associate2D.
C7_ExtractorOptional ==
  /\ Initialized => (extractor_ = "null"
                        <=> ~perception_param_.has_feature_param)
  /\ extractor_ = "null" => ~Invoked("Extract")
  /\ (extractor_ = "null" /\ pc = "returned" /\ AllCheckedOk
        /\ ret # "out_of_range")
       => /\ ret = "true"
          /\ \A st \in {"Associate2D", "Transform", "Process", "Associate3D",
                        "Track", "FillPolygonSetAnchor"} : Invoked(st)
          /\ \A i \in 1..Len(frame.detected_objects) :
               frame.detected_objects[i].camera_supplement.sensor_name
                 = frame.sensor_name
  /\ extractor_ # "null"
       => /\ Cardinality({i \in 1..Len(calls) : calls[i].stage = "Extract"})
               <= 1
          /\ \A i \in 1..Len(calls) :
               (calls[i].stage = "Detect" /\ calls[i].ok
                  /\ Len(calls) >= i + 2)
                 => /\ calls[i + 1].stage = "WriteDetections"
                    /\ calls[i + 2].stage = "Extract"
          /\ Invoked("Associate2D") => Invoked("Extract")
          /\ Failed("Extract") => ret = "false" /\ ~Invoked("Associate2D")

C7_Witness ==
  /\ ret = "true"
  /\ ~perception_param_.has_feature_param
  /\ ~Invoked("Extract")
  /\ Len(frame.tracked_objects) = MaxObjects

\* C8: when the call returns true every tracked object has its anchor point
\* equal to its center and the four-corner polygon of its box, and the fill
\* was the last thing done, after Track and the three debug outputs.
C8_AnchorAndPolygon ==
  ret = "true"
    => /\ \A i \in 1..Len(frame.tracked_objects) :
            LET obj == frame.tracked_objects[i]
            IN  /\ obj.anchor_point = obj.center
                /\ Len(obj.polygon) > 0
                /\ obj.polygon = FillObjectPolygonFromBBox3D(obj).polygon
       /\ Len(calls) >= 5
       /\ CallsFrom(Len(calls) - 4)
            = <<"Track", "WriteCamera2World", "WriteTracking",
                "WriteTrackedDetections", "FillPolygonSetAnchor">>

C8_Witness ==
  /\ ret = "true"
  /\ Len(frame.tracked_objects) = 2
  /\ frame.tracked_objects[1].center # frame.tracked_objects[2].center

\* C9: once Associate2D has been invoked, and so when the call returns true,
\* every detected object carries the frame's sensor name.
C9_StampedBeforeAssociate2D ==
  (Invoked("Associate2D") \/ pc = "associate2d" \/ ret = "true")
    => \A i \in 1..Len(frame.detected_objects) :
         frame.detected_objects[i].camera_supplement.sensor_name
           = frame.sensor_name

C9_Witness ==
  /\ Invoked("Associate2D")
  /\ ~Invoked("Transform")
  /\ Len(frame.detected_objects) = 2
  /\ frame.sensor_name = "front_12mm"

\* The debug writers: the configuration field each depends on, the position
\* the call is at after it, and what the call invokes next.
DebugWriters ==
  [WriteLanelines |->
     [field |-> "lane_out_dir", pc |-> "write_calibration",
      then |-> {"WriteCalibrationOutput"}],
   WriteCalibrationOutput |->
     [field |-> "calibration_out_dir", pc |-> "predict",
      then |-> {"Predict"}],
   WriteDetections |->
     [field |-> "detection_out_dir", pc |-> "extract",
      then |-> IF extractor_ = "null" THEN {"WriteDetectFeature"}
               ELSE {"Extract"}],
   WriteDetectFeature |->
     [field |-> "detect_feature_dir", pc |-> "stamp",
      then |-> {"Associate2D"}],
   WriteCamera2World |->
     [field |-> "camera2world_out_file", pc |-> "write_tracking",
      then |-> {"WriteTracking"}],
   WriteTracking |->
     [field |-> "track_out_file", pc |-> "write_tracked_detections",
      then |-> {"WriteTrackedDetections"}],
   WriteTrackedDetections |->
     [field |-> "tracked_detection_out_dir", pc |-> "fill_polygon",
      then |-> {"FillPolygonSetAnchor"}]]

IsDebug(i) == calls[i].on = "debug"
LatestDebug == CHOOSE i \in 1..Len(calls) :
                 IsDebug(i) /\ \A j \in (i + 1)..Len(calls) : ~IsDebug(j)

\* C10: whatever a debug writer did (skipped, written, failed), the call goes
\* on to the same next step with its outcome untouched; the call returns false
\* only after a failed checked stage and true only after all of them
\* succeeded; and a writer whose field is not configured writes nothing.
C10_DebugBestEffort ==
  /\ \A i \in 1..Len(calls) :
       IsDebug(i)
         => LET w == DebugWriters[calls[i].stage]
            IN  IF i < Len(calls)
                  THEN calls[i + 1].stage \in w.then
                  ELSE /\ ret = "running"
                       /\ pc \in {w.pc} \cup (IF calls[i].stage
                                                   = "WriteDetectFeature"
                                                THEN {"associate2d"}
                                                ELSE IF calls[i].stage
                                                          = "WriteDetections"
                                                       /\ extractor_ = "null"
                                                  THEN {"write_detect_feature"}
                                                  ELSE {})
  /\ ret = "false"
       => /\ calls[Len(calls)].stage \in CheckedStages
          /\ ~calls[Len(calls)].ok
  /\ ret = "true" => AllCheckedOk
  /\ (\E i \in 1..Len(calls) : IsDebug(i))
       => LET e == calls[LatestDebug]
              configured ==
                /\ perception_param_.has_debug_param
                /\ DebugWriters[e.stage].field
                     \in perception_param_.debug_param
          IN  /\ debug_out \in {"skipped", "written", "failed"}
              /\ debug_out = "skipped" <=> ~e.arg
              /\ e.arg => configured
              /\ debug_out \in {"written", "failed"} => configured

C10_Witness ==
  /\ ret = "true"
  /\ debug_out = "failed"
  /\ calls[Len(calls) - 1].stage = "WriteTrackedDetections"

\* Entries of `calls` written by Init.
InitStages == {"GetInstanceByName", "Init"}

\* C11 as claimed: Init is all-or-nothing.  A registry lookup that returns no
\* instance, or a plugin Init that returns false, ends Init in a failed CHECK;
\* and when Init has returned true, the lookup of every entry of
\* detector_param returned an instance.
C11_AllOrNothing ==
  /\ \A i \in 1..Len(calls) :
       (calls[i].stage \in InitStages /\ ~calls[i].ok) => pc = "init_aborted"
  /\ (pc = "idle" /\ calls # <<>>)
       => LET lookups == SelectSeq(calls,
                           LAMBDA e : e.stage = "GetInstanceByName"
                                        /\ e.on \in Sensors)
          IN  /\ Len(lookups) = Len(perception_param_.detector_param)
              /\ \A k \in 1..Len(lookups) :
                   /\ lookups[k].on = perception_param_.detector_param[k]
                   /\ lookups[k].ok

\* The camera names a configuration lists.
ConfiguredSensors ==
  {perception_param_.detector_param[k]
     : k \in 1..Len(perception_param_.detector_param)}

\* C12: when Init has returned true, both maps have the configured camera
\* names as their keys and no other, each name with its own intrinsics and
\* its own detector instance, also for a name listed more than once; and an
\* Init with the same configuration on the initialized object leaves both
\* maps as they were.
C12_OneEntryPerSensor ==
  /\ [](pc = "idle"
         => /\ DOMAIN name_intrinsic_map_ = ConfiguredSensors
            /\ DOMAIN name_detector_map_ = ConfiguredSensors
            /\ \A n \in ConfiguredSensors :
                 /\ name_intrinsic_map_[n]
                      = GetUndistortCameraModel(n).intrinsic
                 /\ name_detector_map_[n] # 0
                 /\ \A o \in ConfiguredSensors \ {n} :
                      name_detector_map_[o] # name_detector_map_[n])
  /\ [][(pc = "idle" /\ pc' = "idle"
          /\ perception_param_' = perception_param_)
         => /\ name_intrinsic_map_' = name_intrinsic_map_
            /\ name_detector_map_' = name_detector_map_]_vars

\* Init has returned true a second time, for a configuration that lists a
\* camera name twice: its lookups returned instances newer than the ones held.
C12_Witness ==
  /\ pc = "idle"
  /\ Len(perception_param_.detector_param) > Cardinality(ConfiguredSensors)
  /\ \E i \in 1..Len(calls) :
       /\ calls[i].stage = "GetInstanceByName"
       /\ calls[i].on \in Sensors
       /\ calls[i].inst > Len(perception_param_.detector_param)

\* The Detect entries of `calls`.
Detections == SelectSeq(calls, LAMBDA e : e.stage = "Detect")

\* C14: a call invokes a detector at most once, and exactly once when it got
\* past the detection step; the detector invoked is the instance the map holds
\* for the frame's own sensor, which no other sensor of the map shares.
C14_OwnDetectorOnce ==
  InCall
    => /\ Len(Detections) <= 1
       /\ (\E st \in {"Extract", "Associate2D", "Track"} : Invoked(st))
            => Len(Detections) = 1
       /\ ret = "true" => Len(Detections) = 1
       /\ \A i \in 1..Len(Detections) :
            /\ Detections[i].on = frame.sensor_name
            /\ Detections[i].inst = name_detector_map_[frame.sensor_name]
            /\ Detections[i].inst # 0
            /\ \A n \in DOMAIN name_detector_map_ \ {frame.sensor_name} :
                 Detections[i].inst # name_detector_map_[n]

C14_Witness ==
  /\ ret = "true"
  /\ Cardinality(DOMAIN name_detector_map_) = 2
  /\ frame.sensor_name = "front_6mm"
  /\ Detections[1].inst = 2
  /\ name_detector_map_["front_12mm"] = 1

\* C15: a frame with a null calibration service never makes the call return
\* true or false and never gets a stage or debug writer invoked: the CHECK
\* of line 302 ends the call, unless the sensor is unknown, in which case the
\* lookup of line 300 has thrown before.
C15_NullServiceFatal ==
  (InCall /\ frame.calibration_service = NullRef)
    => /\ calls = <<>>
       /\ ret \notin {"true", "false", "running"}
       /\ IF frame.sensor_name \in DOMAIN name_intrinsic_map_
            THEN pc = "aborted" /\ ret = "check_failed"
            ELSE pc = "returned" /\ ret = "out_of_range"

C15_Witness ==
  /\ pc = "aborted"
  /\ ret = "check_failed"
  /\ frame.calibration_service = NullRef
  /\ frame.sensor_name = lane_calibration_working_sensor_name_
  /\ calls = <<>>

\* The checked stages and Update among `calls`, in the order invoked.
StageOrder ==
  LET staged == SelectSeq(calls,
                          LAMBDA e : e.stage \in CheckedStages \cup {"Update"})
  IN  [i \in 1..Len(staged) |-> staged[i].stage]

\* The order of the stages for the frame's sensor.
ExpectedOrder ==
  (IF frame.sensor_name = lane_calibration_working_sensor_name_
     THEN <<"LaneDetect", "LaneProcess2D", "Update", "LaneProcess3D">>
     ELSE <<"Update">>)
    \o <<"Predict", "Detect">>
    \o (IF extractor_ # "null" THEN <<"Extract">> ELSE <<>>)
    \o <<"Associate2D", "Transform", "Process", "Associate3D", "Track">>

\* C17: the stages a call has invoked so far are the first ones of the fixed
\* order for the frame's sensor, each once; a call that returns true has
\* invoked all of them.
C17_FixedStageOrder ==
  InCall
    => /\ Len(StageOrder) <= Len(ExpectedOrder)
       /\ StageOrder = SubSeq(ExpectedOrder, 1, Len(StageOrder))
       /\ ret = "true" => StageOrder = ExpectedOrder

C17_Witness ==
  /\ ret = "true"
  /\ frame.sensor_name = lane_calibration_working_sensor_name_
  /\ extractor_ # "null"
  /\ Len(StageOrder) = 12

\* C18: no step of a Perception call, whatever its outcome, changes the maps,
\* the working sensor name, the extractor, the configuration or the debug
\* streams of the pipeline (every step that is not Init's).
C18_PipelineImmutable ==
  [][pc # "constructed" => pipeline' = pipeline]_vars

\* A call has failed at its last stage, on a frame of the one sensor the maps
\* have.
C18_Witness ==
  /\ pc = "returned"
  /\ ret = "false"
  /\ Failed("Track")
  /\ DOMAIN name_intrinsic_map_ = {frame.sensor_name}
  /\ DOMAIN name_detector_map_ = {frame.sensor_name}

\* C19: whenever the obstacle postprocessor is invoked, the flag handed to it
\* is true.
C19_RefinementAlwaysOn ==
  \A i \in 1..Len(calls) : calls[i].stage = "Process" => calls[i].arg

C19_Witness ==
  /\ Invoked("Process")
  /\ frame.calibration_service = OtherRef
  /\ calls[Len(calls)].arg

\* The calibration state is the one a SetCameraHeightAndPitch(c) has left.
SetWith(c) ==
  /\ calibration.correction
       = [name_camera_ground_height_map |-> c.name_camera_ground_height_map,
          name_camera_pitch_angle_diff_map |->
            c.name_camera_pitch_angle_diff_map]
  /\ calibration.pitch_angle
       = [from |-> c.pitch_angle_calibrator_working_sensor]

TrackerCalls ==
  LET got == SelectSeq(calls, LAMBDA e : e.on = "tracker_"
                                            /\ e.stage \notin InitStages)
  IN  [i \in 1..Len(got) |-> got[i].stage]

TrackerOrder == <<"Predict", "Associate2D", "Associate3D", "Track">>

\* C20: the tracker calls of every Perception call are the first ones of
\* Predict, Associate2D, Associate3D, Track; a call that has invoked Predict
\* and not brought Track to success leaves all of its tracker calls pending,
\* the Predict among them; and nothing but a call on the tracker changes what
\* is pending: not the return of the failed call, not the start of the next
\* frame, whose Predict comes on top of the unmatched one.
C20_TrackerGroups ==
  /\ [](InCall
         => /\ Len(TrackerCalls) <= Len(TrackerOrder)
            /\ TrackerCalls = SubSeq(TrackerOrder, 1, Len(TrackerCalls))
            /\ TrackerCalls # <<>>
                 => tracker_pending
                      = IF Invoked("Track") /\ ~Failed("Track")
                          THEN 0 ELSE Len(TrackerCalls)
            /\ (ret = "false" /\ Invoked("Predict"))
                 => tracker_pending >= 1)
  /\ [][tracker_pending' # tracker_pending
         => /\ pc \in {"predict", "associate2d", "associate3d", "track"}
            /\ Len(calls') = Len(calls) + 1
            /\ calls'[Len(calls')].on = "tracker_"
            /\ pc = "predict" => tracker_pending' = 1]_vars

\* A frame is at its Predict while the frame before, which failed after its
\* Associate2D, has left a Predict and an Associate2D pending.
C20_Witness ==
  /\ pc = "predict"
  /\ ret = "running"
  /\ tracker_pending = 2

\* A thread is inside the pipeline's calibration service.
InUpdate ==
  /\ pc \in {"lane_update_locked", "update_locked"}
  /\ frame.calibration_service = OwnRef
InSet == set_pc # "out"

\* C13: Update of the Perception thread and SetCameraHeightAndPitch of the
\* second thread are never inside the pipeline's calibration service at the
\* same time, so that no SetCameraHeightAndPitch is half done while Update is
\* inside; and the mutex is held exactly while one of them is inside.
C13_NoInterleaving ==
  /\ ~(InUpdate /\ InSet)
  /\ Initialized => (calibration.mutex_ <=> (InUpdate \/ InSet))

\* SetCameraHeightAndPitch has stored the maps and not yet the pitch, while
\* Perception, with a frame of the pipeline's own service, is at its Update
\* and has to wait.
C13_Witness ==
  /\ set_pc = "heights"
  /\ pc = "lane_update"
  /\ frame.calibration_service = OwnRef
  /\ calibration.mutex_
  /\ calibration.correction # NoCorrection

\* The Update entries of `calls`.
Updates == SelectSeq(calls, LAMBDA e : e.stage = "Update")

\* C21 as claimed: a call invokes Update at most once, on the service the
\* frame points to, and never on the pipeline's own service.
C21_NeverOnOwnService ==
  InCall
    => /\ Len(Updates) <= 1
       /\ \A i \in 1..Len(Updates) :
            /\ Updates[i].on = frame.calibration_service
            /\ Updates[i].on # OwnRef

\* C21 amended: a call invokes Update at most once, and on the service the
\* frame points to.  Perception never uses its member calibration_service_,
\* but the frame may point to that very service: a step of a call changes the
\* pipeline's calibration state only if it is the Update of a frame that
\* points to it, and the Update of a frame that points to another service
\* leaves it alone, a correction set before included.
C21_UpdateOnFrameService ==
  /\ [](InCall
         => /\ Len(Updates) <= 1
            /\ \A i \in 1..Len(Updates) :
                 /\ Updates[i].on = frame.calibration_service
                 /\ Updates[i].on # NullRef)
  /\ [][(pc # "constructed" /\ pc' # pc /\ calibration' # calibration)
         => /\ pc \in {"lane_update", "update"}
            /\ frame.calibration_service = OwnRef
            /\ calls' = Append(calls, calls'[Len(calls')])
            /\ calls'[Len(calls')].stage = "Update"
            /\ calls'[Len(calls')].on = OwnRef]_vars

\* A frame of the working sensor that points to another service has been
\* processed to the end, its Update reporting an estimate, while the
\* pipeline's own service holds a correction and the pitch set with it.
C21_Witness ==
  /\ ret = "true"
  /\ frame.sensor_name = lane_calibration_working_sensor_name_
  /\ frame.calibration_service = OtherRef
  /\ Len(Updates) = 1
  /\ Updates[1].ok
  /\ \E c \in Corrections : SetWith(c)

=============================================================================
